---- MODULE Spec2Model ----
(***************************************************************************)
(* Model of src/server.js: the relevance-scoring search over the AHA       *)
(* resource collection (searchAhaResources) and the search_aha_resources   *)
(* tool handler that formats its result.                                   *)
(*                                                                         *)
(* A JavaScript string is modelled as a sequence of one-character strings, *)
(* so that trimming, splitting, lower-casing, substring search and the     *)
(* per-term regular-expression match are computed as the code computes     *)
(* them.                                                                   *)
(***************************************************************************)
EXTENDS Integers, Sequences, FiniteSets, TLC

\* ------------------------------------------------------------------ bounds

\* Longest query enumerated over QueryChars.
MaxQueryLen == 3

\* ------------------------------------------------------- program constants

PhraseScore == 100
TitleScore == 50
KeywordScore == 30
TermScore == 5
CategoryScore == 20
MinTermLen == 2
TopN == 3
NoteThreshold == 3

\* ----------------------------------------------------------------- strings

UpperCase == <<"A","B","C","D","E","F","G","H","I","J","K","L","M",
               "N","O","P","Q","R","S","T","U","V","W","X","Y","Z">>

LowerCase == <<"a","b","c","d","e","f","g","h","i","j","k","l","m",
               "n","o","p","q","r","s","t","u","v","w","x","y","z">>

Range(s) == {s[i] : i \in 1..Len(s)}

\* The characters String.prototype.trim strips and \s matches.
WhiteSpace == {" ", "\t", "\n", "\r"}

\* The characters the pattern atom "." does not match.
LineTerminators == {"\n", "\r"}

\* The lower-case letter of each upper-case letter.
lowerCaseOf ==
    [c \in Range(UpperCase) |->
        LowerCase[CHOOSE i \in 1..Len(UpperCase) : UpperCase[i] = c]]

toLowerCaseChar(c) ==
    IF c \in DOMAIN lowerCaseOf THEN lowerCaseOf[c] ELSE c

\* String.prototype.toLowerCase
toLowerCase(s) == [i \in 1..Len(s) |-> toLowerCaseChar(s[i])]

RECURSIVE trimStart(_)
trimStart(s) ==
    IF s # <<>> /\ Head(s) \in WhiteSpace THEN trimStart(Tail(s)) ELSE s

RECURSIVE trimEnd(_)
trimEnd(s) ==
    IF s # <<>> /\ s[Len(s)] \in WhiteSpace
    THEN trimEnd(SubSeq(s, 1, Len(s) - 1))
    ELSE s

\* String.prototype.trim
trim(s) == trimEnd(trimStart(s))

\* String.prototype.includes
includes(s, sub) ==
    \E i \in 1..(Len(s) - Len(sub) + 1) : SubSeq(s, i, i + Len(sub) - 1) = sub

RECURSIVE splitFrom(_, _, _)
splitFrom(s, cur, acc) ==
    IF s = <<>> THEN Append(acc, cur)
    ELSE IF Head(s) \in WhiteSpace
         THEN splitFrom(trimStart(s), <<>>, Append(acc, cur))
         ELSE splitFrom(Tail(s), Append(cur, Head(s)), acc)

\* String.prototype.split(/\s+/)
split(s) == splitFrom(s, <<>>, <<>>)

RECURSIVE join(_, _)
\* Array.prototype.join
join(parts, sep) ==
    IF parts = <<>> THEN <<>>
    ELSE IF Len(parts) = 1 THEN parts[1]
         ELSE parts[1] \o sep \o join(Tail(parts), sep)

\* ------------------------------------------------------ regular expressions

\* new RegExp(term, "g") over the characters a query term can hold here:
\* letters are literal atoms, "." is the any-character atom, and "(" opens a
\* group that nothing closes, which the constructor rejects with a
\* SyntaxError.
regExpCompiles(term) == "(" \notin Range(term)

atomMatches(atom, c) ==
    IF atom = "." THEN c \notin LineTerminators ELSE atom = c

patternMatchesAt(text, pattern, i) ==
    /\ i + Len(pattern) - 1 <= Len(text)
    /\ \A k \in 1..Len(pattern) : atomMatches(pattern[k], text[i + k - 1])

\* Where the next match at or after position i starts, 0 when there is none.
nextMatch(text, pattern, i) ==
    LET starts == {j \in i..(Len(text) - Len(pattern) + 1) :
                      patternMatchesAt(text, pattern, j)}
    IN  IF starts = {} THEN 0
        ELSE CHOOSE j \in starts : \A k \in starts : j <= k

RECURSIVE matchesFrom(_, _, _)
\* The matches a global match finds from position i on: each search resumes
\* where the previous match ended.
matchesFrom(text, pattern, i) ==
    LET j == nextMatch(text, pattern, i)
    IN  IF j = 0 THEN 0 ELSE 1 + matchesFrom(text, pattern, j + Len(pattern))

termMatches_firstOnly(searchableText, term) ==
    IF \E i \in 1..Len(searchableText) : patternMatchesAt(searchableText, term, i)
    THEN 1 ELSE 0

\* (searchableText.match(new RegExp(term, "g")) || []).length
termMatches(searchableText, term) == matchesFrom(searchableText, term, 1)

\* ----------------------------------------------------------------- scoring

Indent6 == <<"\n", " ", " ", " ", " ", " ", " ">>
Indent4 == <<"\n", " ", " ", " ", " ">>

keywordsJoined(resource) ==
    IF resource.hasKeywords THEN join(resource.keywords, <<" ">>) ELSE <<>>

\* The template literal of the searchable text, lower-cased.
searchableTextOf(resource) ==
    toLowerCase(Indent6 \o resource.title \o <<" ">>
                \o Indent6 \o resource.category \o <<" ">>
                \o Indent6 \o resource.content \o <<" ">>
                \o Indent6 \o keywordsJoined(resource)
                \o Indent4)

\* queryLower
normalizeQuery(query) == trim(toLowerCase(query))

\* queryTerms
queryTermsOf(queryLower) == SelectSeq(split(queryLower), LAMBDA term : Len(term) > 0)

phraseScore(searchableText, queryLower) ==
    IF includes(searchableText, queryLower) THEN PhraseScore ELSE 0

titleScore(resource, queryLower) ==
    IF includes(toLowerCase(resource.title), queryLower) THEN TitleScore ELSE 0

keywordMatches(resource, queryLower, queryTerms) ==
    IF resource.hasKeywords
    THEN Len(SelectSeq(resource.keywords,
             LAMBDA keyword :
                \/ includes(toLowerCase(keyword), queryLower)
                \/ \E t \in 1..Len(queryTerms) :
                      includes(toLowerCase(keyword), queryTerms[t])))
    ELSE 0

keywordScore(resource, queryLower, queryTerms) ==
    keywordMatches(resource, queryLower, queryTerms) * KeywordScore

countsTerm(term) == Len(term) > MinTermLen

\* What one pass of the forEach callback adds to the score.
termContribution(searchableText, term) ==
    IF countsTerm(term) THEN termMatches(searchableText, term) * TermScore ELSE 0

RECURSIVE termScoreFrom(_, _, _)
termScoreFrom(searchableText, queryTerms, t) ==
    IF t > Len(queryTerms) THEN 0
    ELSE termContribution(searchableText, queryTerms[t])
         + termScoreFrom(searchableText, queryTerms, t + 1)

\* The forEach over queryTerms.
termScore(searchableText, queryTerms) ==
    termScoreFrom(searchableText, queryTerms, 1)

categoryScore(resource, queryLower) ==
    IF includes(toLowerCase(resource.category), queryLower) THEN CategoryScore ELSE 0

\* The score the map callback computes for one resource.
scoreOf(resource, queryLower, queryTerms) ==
    LET searchableText == searchableTextOf(resource)
    IN  phraseScore(searchableText, queryLower)
        + titleScore(resource, queryLower)
        + keywordScore(resource, queryLower, queryTerms)
        + termScore(searchableText, queryTerms)
        + categoryScore(resource, queryLower)

\* Whether the map callback runs to its return for these terms: it throws at
\* the first counted term the RegExp constructor rejects.
termsCompile(queryTerms) ==
    \A t \in 1..Len(queryTerms) :
        countsTerm(queryTerms[t]) => regExpCompiles(queryTerms[t])

\* ------------------------------------------------------------------ search

isBlankQuery_emptyOnly(query) == query = <<>>

\* !query || query.trim().length === 0
isBlankQuery(query) == query = <<>> \/ Len(trim(query)) = 0

keepsItem_nonNegative(item) == item.score >= 0

\* the filter predicate
keepsItem(item) == item.score > 0

compareFn_ascending(a, b) == a.score - b.score

\* the sort comparator
compareFn(a, b) == b.score - a.score

RECURSIVE insertSorted(_, _)
insertSorted(sorted, x) ==
    IF sorted = <<>> THEN <<x>>
    ELSE IF compareFn(Head(sorted), x) <= 0
         THEN <<Head(sorted)>> \o insertSorted(Tail(sorted), x)
         ELSE <<x>> \o sorted

RECURSIVE sort(_)
\* Array.prototype.sort: stable
sort(arr) ==
    IF arr = <<>> THEN <<>>
    ELSE insertSorted(sort(SubSeq(arr, 1, Len(arr) - 1)), arr[Len(arr)])

\* scoredResources
scoreAll(resources, queryLower, queryTerms) ==
    [i \in 1..Len(resources) |->
        [resource |-> resources[i],
         score |-> scoreOf(resources[i], queryLower, queryTerms)]]

rankScored(scoredResources) ==
    LET sorted == sort(SelectSeq(scoredResources, keepsItem))
    IN  [i \in 1..Len(sorted) |-> sorted[i].resource]

\* One call: how it ends, what it returns and the scores it computed.
searchAhaResources(resources, query) ==
    IF isBlankQuery(query)
    THEN [outcome |-> "returned", result |-> <<>>, scored |-> <<>>]
    ELSE LET queryLower == normalizeQuery(query)
             queryTerms == queryTermsOf(queryLower)
         IN  IF resources # <<>> /\ ~termsCompile(queryTerms)
             THEN [outcome |-> "threw", result |-> <<>>, scored |-> <<>>]
             ELSE LET scoredResources == scoreAll(resources, queryLower, queryTerms)
                  IN  [outcome |-> "returned",
                       result |-> rankScored(scoredResources),
                       scored |-> scoredResources]

\* ------------------------------------------------------------------ inputs

\* A document of resources/aha-resources.json: hasKeywords is whether the
\* optional keywords array is present, and url "" is an absent url.
DocOne ==
    [id |-> 1,
     title |-> <<"A","b">>,
     category |-> <<"b">>,
     content |-> <<"a"," ","b">>,
     hasKeywords |-> TRUE,
     keywords |-> <<<<"a">>>>,
     url |-> "u1"]

DocTwo ==
    [id |-> 2,
     title |-> <<"b">>,
     category |-> <<"a">>,
     content |-> <<"a","b",".">>,
     hasKeywords |-> FALSE,
     keywords |-> <<>>,
     url |-> ""]

DocThree ==
    [id |-> 3,
     title |-> <<"B">>,
     category |-> <<"A">>,
     content |-> <<"a","b",".">>,
     hasKeywords |-> FALSE,
     keywords |-> <<>>,
     url |-> "u3"]

DocFour ==
    [id |-> 4,
     title |-> <<"a">>,
     category |-> <<"b">>,
     content |-> <<"b","a">>,
     hasKeywords |-> TRUE,
     keywords |-> <<<<"a","b">>, <<"B">>>>,
     url |-> ""]

DocFive ==
    [id |-> 5,
     title |-> <<"b","a">>,
     category |-> <<"a","b">>,
     content |-> <<"a",".","b">>,
     hasKeywords |-> TRUE,
     keywords |-> <<>>,
     url |-> "u5"]

HeartAttackDoc ==
    [id |-> 10,
     title |-> <<"H","e","a","r","t"," ","A","t","t","a","c","k"," ","S","y","m","p","t","o","m","s">>,
     category |-> <<"S","y","m","p","t","o","m","s">>,
     content |-> <<"C","h","e","s","t"," ","p","a","i","n",","," ","s","h","o","r","t","n","e","s","s"," ","o","f"," ","b","r","e","a","t","h",".",".",".">>,
     hasKeywords |-> TRUE,
     keywords |-> <<<<"c","h","e","s","t"," ","p","a","i","n">>, <<"h","e","a","r","t"," ","a","t","t","a","c","k">>>>,
     url |-> "u10"]

PhraseDoc ==
    [id |-> 11,
     title |-> <<"T","i","p","s">>,
     category |-> <<"C","a","r","e">>,
     content |-> <<"a"," ",".",".",".">>,
     hasKeywords |-> FALSE,
     keywords |-> <<>>,
     url |-> ""]

LongDoc ==
    [id |-> 12,
     title |-> <<"D","i","e","t">>,
     category |-> <<"N","u","t","r","i","t","i","o","n">>,
     content |-> <<"E","a","t"," ","f","r","u","i","t","s",","," ","v","e","g","e","t","a","b","l","e","s",","," ","w","h","o","l","e"," ","g","r","a","i","n","s",","," ","b","e","a","n","s",","," ","n","u","t","s"," ","a","n","d"," ","f","i","s","h"," ","e","v","e","r","y"," ","w","e","e","k">>,
     hasKeywords |-> TRUE,
     keywords |-> <<<<"a">>>>,
     url |-> "u12"]

DocPool == {DocOne, DocTwo, DocThree}

SeqsUpTo(S, n) == UNION {[1..k -> S] : k \in 0..n}

\* Every collection of pool documents with unique ids, in every order.
PoolCollections ==
    {c \in SeqsUpTo(DocPool, Cardinality(DocPool)) :
        \A i, j \in 1..Len(c) : i # j => c[i].id # c[j].id}

ScenarioCollections ==
    {<<HeartAttackDoc>>, <<PhraseDoc, LongDoc>>, <<LongDoc, PhraseDoc>>,
     <<DocFour>>, <<DocFour, DocOne>>, <<DocOne, DocFour>>,
     <<DocOne, DocTwo, DocThree, DocFour>>,
     <<DocFour, DocThree, DocTwo, DocOne>>,
     <<DocTwo, DocFour, DocOne, DocFive, DocThree>>,
     <<DocFive, DocFour, DocThree, DocTwo, DocOne>>}

Collections == PoolCollections \cup ScenarioCollections

QueryChars == {"a", "b", " ", ".", "("}

HeartAttackQuery == <<"h","e","a","r","t"," ","a","t","t","a","c","k">>

DotsQuery == <<"a"," ",".",".",".">>

ScenarioQueries ==
    {HeartAttackQuery, DotsQuery,
     <<"A","b">>, <<"\t","A"," "," ","b","\n">>, <<" ","\t","\n">>, <<"b"," ","(","a","b">>}

Queries == SeqsUpTo(QueryChars, MaxQueryLen) \cup ScenarioQueries

\* ------------------------------------------------------------------- state

VARIABLES
    resourcesFile,  \* the parsed content of resources/aha-resources.json
    ahaResources,   \* the module-level collection every search reads
    pc,             \* "idle" or "done": whether a call has run and not yet been answered
    op,             \* "none", "search" (searchAhaResources) or "tool" (the handler)
    query,          \* the query of the call
    outcome,        \* "none", "returned" or "threw"
    result,         \* what searchAhaResources returned (matchingResources)
    scored,         \* the scoredResources of the call
    response,       \* what the tool handler returned
    served          \* whether an earlier call has been answered

vars == <<resourcesFile, ahaResources, pc, op, query, outcome, result, scored,
          response, served>>

NoResponse ==
    [kind |-> "none", items |-> <<>>, note |-> 0, resourcesFound |-> 0, resources |-> <<>>]

Init ==
    /\ resourcesFile \in Collections
    /\ ahaResources = [resources |-> resourcesFile]
    /\ pc = "idle"
    /\ op = "none"
    /\ query = <<>>
    /\ outcome = "none"
    /\ result = <<>>
    /\ scored = <<>>
    /\ response = NoResponse
    /\ served = FALSE

resourcesAfterSearch_sortsInPlace(aha, q) ==
    LET r == searchAhaResources(aha.resources, q)
        sorted == sort(r.scored)
    IN  IF r.scored = <<>> THEN aha
        ELSE [resources |-> [i \in 1..Len(sorted) |-> sorted[i].resource]]

\* map and filter build new arrays and sort orders the filtered copy in
\* place: the collection itself is only read.
resourcesAfterSearch(aha, q) == aha

\* A call of searchAhaResources(q).
CallSearch(q) ==
    /\ pc = "idle"
    /\ LET r == searchAhaResources(ahaResources.resources, q)
       IN  /\ outcome' = r.outcome
           /\ result' = r.result
           /\ scored' = r.scored
    /\ ahaResources' = resourcesAfterSearch(ahaResources, q)
    /\ pc' = "done"
    /\ op' = "search"
    /\ query' = q
    /\ response' = NoResponse
    /\ UNCHANGED <<resourcesFile, served>>

sliceTop(matchingResources) ==
    SubSeq(matchingResources, 1,
           IF Len(matchingResources) < TopN THEN Len(matchingResources) ELSE TopN)

\* One numbered entry of responseText.
renderItem(topResources, index) ==
    [number |-> index,
     title |-> topResources[index].title,
     category |-> topResources[index].category,
     content |-> topResources[index].content,
     learnMore |-> topResources[index].url,
     separator |-> index < Len(topResources)]

resourcesFoundOf_shown(matchingResources) == Len(sliceTop(matchingResources))

\* structuredContent.resourcesFound
resourcesFoundOf(matchingResources) == Len(matchingResources)

\* The count the "Note: Found ..." line discloses, 0 when the line is absent.
noteOf(matchingResources) ==
    IF Len(matchingResources) > NoteThreshold THEN Len(matchingResources) ELSE 0

formatResults(matchingResources) ==
    LET topResources == sliceTop(matchingResources)
    IN  [kind |-> "results",
         items |-> [i \in 1..Len(topResources) |-> renderItem(topResources, i)],
         note |-> noteOf(matchingResources),
         resourcesFound |-> resourcesFoundOf(matchingResources),
         resources |-> [i \in 1..Len(topResources) |->
                          [id |-> topResources[i].id,
                           title |-> topResources[i].title,
                           category |-> topResources[i].category]]]

\* A call of the search_aha_resources tool with args.query = q.
CallTool(q) ==
    /\ pc = "idle"
    /\ IF isBlankQuery(q)
       THEN /\ outcome' = "returned"
            /\ result' = <<>>
            /\ scored' = <<>>
            /\ response' = [NoResponse EXCEPT !.kind = "prompt"]
            /\ UNCHANGED ahaResources
       ELSE LET r == searchAhaResources(ahaResources.resources, q)
            IN  /\ outcome' = r.outcome
                /\ result' = r.result
                /\ scored' = r.scored
                /\ response' =
                      IF r.outcome = "threw" THEN NoResponse
                      ELSE IF Len(r.result) = 0
                           THEN [NoResponse EXCEPT !.kind = "notFound"]
                           ELSE formatResults(r.result)
                /\ ahaResources' = resourcesAfterSearch(ahaResources, q)
    /\ pc' = "done"
    /\ op' = "tool"
    /\ query' = q
    /\ UNCHANGED <<resourcesFile, served>>

\* The request that made the call is answered; the server waits for the next.
Respond ==
    /\ pc = "done"
    /\ pc' = "idle"
    /\ op' = "none"
    /\ query' = <<>>
    /\ outcome' = "none"
    /\ result' = <<>>
    /\ scored' = <<>>
    /\ response' = NoResponse
    /\ served' = TRUE
    /\ UNCHANGED <<resourcesFile, ahaResources>>

Next ==
    \/ \E q \in Queries : CallSearch(q)
    \/ \E q \in Queries : CallTool(q)
    \/ Respond

Spec == Init /\ [][Next]_vars

\* ------------------------------------------------------------------ claims

SearchDone == pc = "done" /\ op = "search"

SearchReturned == SearchDone /\ outcome = "returned"

OnlyWhiteSpace(q) == \A i \in 1..Len(q) : q[i] \in WhiteSpace

QueryLower == normalizeQuery(query)

QueryTerms == queryTermsOf(QueryLower)

\* Where a document stands in the collection (ids are unique).
PositionOf(resource) ==
    CHOOSE k \in 1..Len(ahaResources.resources) :
        ahaResources.resources[k].id = resource.id

\* The score the call computed for a document.
ComputedScore(resource) == scored[PositionOf(resource)].score

RECURSIVE literalOccurrencesFrom(_, _, _)
literalOccurrencesFrom(text, term, i) ==
    LET starts == {j \in i..(Len(text) - Len(term) + 1) :
                      SubSeq(text, j, j + Len(term) - 1) = term}
    IN  IF starts = {} THEN 0
        ELSE 1 + literalOccurrencesFrom(text, term,
                   (CHOOSE j \in starts : \A k \in starts : j <= k) + Len(term))

\* The non-overlapping occurrences of term as a literal substring of text.
LiteralOccurrences(text, term) == literalOccurrencesFrom(text, term, 1)

\* C1: a call of searchAhaResources with an empty or whitespace-only query
\* returns the empty sequence and computes no score, whatever the collection.
C1_BlankQueryReturnsEmpty ==
    (SearchDone /\ OnlyWhiteSpace(query)) =>
        /\ outcome = "returned"
        /\ result = <<>>
        /\ scored = <<>>

C1_Witness ==
    /\ SearchDone
    /\ Len(query) > 1
    /\ OnlyWhiteSpace(query)
    /\ Len(ahaResources.resources) > 1
    /\ result = <<>>
    /\ scored = <<>>

\* C2: the result of a call is drawn from the collection, holds no document
\* whose computed score is <= 0, and holds every document whose computed
\* score is > 0 exactly once.
C2_ResultIsThePositiveScored ==
    SearchReturned =>
        /\ \A i \in 1..Len(result) :
              \E j \in 1..Len(scored) :
                  /\ result[i] = ahaResources.resources[j]
                  /\ scored[j].resource = result[i]
                  /\ scored[j].score > 0
        /\ \A j \in 1..Len(scored) :
              scored[j].score > 0 =>
                  Cardinality({i \in 1..Len(result) :
                                  result[i] = scored[j].resource}) = 1

C2_Witness ==
    /\ SearchReturned
    /\ Len(result) >= 2
    /\ \E j \in 1..Len(scored) : scored[j].score = 0
    /\ \E j \in 1..Len(scored) : scored[j].score > 0

\* C3: the result of a call is in descending order of computed score, and two
\* returned documents of equal score keep their order in the collection.
C3_DescendingAndStable ==
    SearchReturned =>
        \A i, j \in 1..Len(result) :
            i < j =>
                /\ ComputedScore(result[i]) >= ComputedScore(result[j])
                /\ ComputedScore(result[i]) = ComputedScore(result[j])
                      => PositionOf(result[i]) < PositionOf(result[j])

C3_Witness ==
    /\ SearchReturned
    /\ Len(result) >= 3
    /\ \E i, j \in 1..Len(result) :
          /\ i < j
          /\ ComputedScore(result[i]) = ComputedScore(result[j])
    /\ \E i, j \in 1..Len(result) :
          /\ i < j
          /\ ComputedScore(result[i]) > ComputedScore(result[j])
          /\ PositionOf(result[i]) > PositionOf(result[j])

HeartAttackScenario ==
    /\ SearchDone
    /\ resourcesFile = <<HeartAttackDoc>>
    /\ query = HeartAttackQuery

\* C4 as stated: in the heart-attack scenario the document's total score is
\* 180 and it is the sole result.
C4_ScenarioScores180 ==
    HeartAttackScenario =>
        /\ outcome = "returned"
        /\ Len(scored) = 1
        /\ scored[1].score = 180
        /\ result = <<HeartAttackDoc>>

\* C4 amended: in the heart-attack scenario the document's total score is 200
\* (phrase in blob +100, phrase in title +50, one matching keyword +30, and
\* term frequency +20: "heart" and "attack" each occur twice in the blob), and
\* it is the sole result.
C4_ScenarioScores200 ==
    HeartAttackScenario =>
        /\ outcome = "returned"
        /\ Len(scored) = 1
        /\ scored[1].score = 200
        /\ scored[1].score = 100 + 50 + 30 + 20
        /\ result = <<HeartAttackDoc>>

C4_Witness ==
    /\ HeartAttackScenario
    /\ outcome = "returned"
    /\ Len(result) = 1
    /\ result[1].id = HeartAttackDoc.id

\* C5: every call of searchAhaResources completes and returns a sequence; none
\* ends in an exception.
C5_SearchIsTotal == SearchDone => outcome = "returned"

\* C6: for every query term longer than 2 characters, what the term adds to a
\* document's score is 5 times the number of non-overlapping occurrences of the
\* term as a literal substring of the document's searchable text.
C6_TermFrequencyIsLiteral ==
    SearchReturned =>
        \A j \in 1..Len(scored) : \A t \in 1..Len(QueryTerms) :
            Len(QueryTerms[t]) > 2 =>
                termContribution(searchableTextOf(scored[j].resource), QueryTerms[t])
                    = 5 * LiteralOccurrences(searchableTextOf(scored[j].resource),
                                             QueryTerms[t])

\* C7: a query term of length 1 or 2 adds 0 to the term-frequency component of
\* every document's score, and a term of length 3 or more adds 5 for each of
\* its occurrences in the document's searchable text.
C7_TermLengthFloor ==
    SearchReturned =>
        \A j \in 1..Len(scored) : \A t \in 1..Len(QueryTerms) :
            termContribution(searchableTextOf(scored[j].resource), QueryTerms[t])
                = IF Len(QueryTerms[t]) <= 2 THEN 0
                  ELSE 5 * LiteralOccurrences(searchableTextOf(scored[j].resource),
                                              QueryTerms[t])

\* Document B matches the query only by one of its keywords holding one short
\* query term: no phrase match in its searchable text, title or category, and
\* no longer term of the query occurs in its searchable text.
OnlySharesShortTerm(B) ==
    /\ B.hasKeywords
    /\ ~includes(searchableTextOf(B), QueryLower)
    /\ ~includes(toLowerCase(B.title), QueryLower)
    /\ ~includes(toLowerCase(B.category), QueryLower)
    /\ LET shared == {kt \in (1..Len(B.keywords)) \X (1..Len(QueryTerms)) :
                         includes(toLowerCase(B.keywords[kt[1]]), QueryTerms[kt[2]])}
       IN  /\ Cardinality(shared) = 1
           /\ \A kt \in shared : Len(QueryTerms[kt[2]]) <= 2
    /\ \A t \in 1..Len(QueryTerms) :
          Len(QueryTerms[t]) > 2 =>
              LiteralOccurrences(searchableTextOf(B), QueryTerms[t]) = 0

\* C8: a document whose content holds the normalized query scores strictly
\* higher than, and is ranked before, a document that matches only by sharing
\* one short query term with one of its keywords.
C8_PhraseMatchDominates ==
    SearchReturned =>
        \A a, b \in 1..Len(scored) :
            (/\ includes(toLowerCase(scored[a].resource.content), QueryLower)
             /\ OnlySharesShortTerm(scored[b].resource))
            => /\ scored[a].score > scored[b].score
               /\ \E i, j \in 1..Len(result) :
                     /\ i < j
                     /\ result[i] = scored[a].resource
                     /\ result[j] = scored[b].resource

ToolReturnedMatches ==
    pc = "done" /\ op = "tool" /\ outcome = "returned" /\ Len(result) >= 1

\* C9: when the search returns n >= 1 matches, the tool handler renders the
\* first min(3, n) of them in the search's order, adds the note giving the
\* total n if and only if n > 3, and reports resourcesFound = n.
C9_HandlerRendersTopThree ==
    ToolReturnedMatches =>
        LET n == Len(result)
            shown == IF n < 3 THEN n ELSE 3
        IN  /\ response.kind = "results"
            /\ Len(response.items) = shown
            /\ \A i \in 1..shown :
                  /\ response.items[i].number = i
                  /\ response.items[i].title = result[i].title
                  /\ response.items[i].category = result[i].category
                  /\ response.items[i].content = result[i].content
                  /\ response.items[i].learnMore = result[i].url
            /\ Len(response.resources) = shown
            /\ \A i \in 1..shown : response.resources[i].id = result[i].id
            /\ (response.note # 0) <=> (n > 3)
            /\ n > 3 => response.note = n
            /\ response.resourcesFound = n

C9_Witness ==
    /\ ToolReturnedMatches
    /\ Len(result) = 5
    /\ Len(response.items) = 3
    /\ response.note = 5
    /\ response.resourcesFound = 5
    /\ result[1] # resourcesFile[1]

\* C10: the collection stays the one loaded at startup, and a call's outcome
\* and result are those its query gives on the startup collection, whatever
\* calls came before.
C10_CollectionUnchangedCallsIndependent ==
    /\ ahaResources = [resources |-> resourcesFile]
    /\ SearchDone =>
          LET r == searchAhaResources(resourcesFile, query)
          IN  /\ outcome = r.outcome
              /\ result = r.result

C10_Witness ==
    /\ SearchReturned
    /\ served
    /\ Len(result) >= 2
    /\ result[1] # resourcesFile[1]
    /\ ahaResources.resources = resourcesFile

====
